---- MODULE Spec2Model ----
(***************************************************************************)
(* Model of the Appwrite cloud function of src/index.js: the class         *)
(* MistralService (constructor, sendMessage) and the default export, the   *)
(* handler of one invocation ({ req, res, log, error }).                   *)
(*                                                                         *)
(* JavaScript values are tagged records, so that truthiness (!x, x || y),  *)
(* typeof and property access on a value are computed as the engine        *)
(* computes them.  A string is the sequence of its characters; a request   *)
(* body of type string is the sequence of its JSON tokens.                 *)
(***************************************************************************)
EXTENDS Integers, Sequences, FiniteSets, TLC

VARIABLES
    env,          \* process.env.MISTRAL_API_KEY (Undef when not set)
    sent,         \* the document the caller put in the body (NoDocument, Garbage)
    req,          \* the invocation request: [method, body]
    pc,           \* position of the handler
    service,      \* the MistralService instance (NoService before construction)
    payload,      \* the parsed body (index.js:93)
    parseCalls,   \* number of JSON.parse calls
    sendCalls,    \* number of sendMessage calls
    extCalls,     \* the requests passed to client.chat.complete, in order
    chatOutcome,  \* what the awaited call settled with (Pending before)
    caught,       \* the value bound to err in the handler's catch
    thrown,       \* the exception the handler's promise rejected with
    responses,    \* the res.json calls, in order: [status, body]
    logs,         \* the messages passed to log
    errors        \* the messages passed to error

vars == <<env, sent, req, pc, service, payload, parseCalls, sendCalls, extCalls,
          chatOutcome, caught, thrown, responses, logs, errors>>

----------------------------------------------------------------------------
(* Bounds of the inputs *)

MaxStrLen == 2
MaxTokensInput == 2
MaxChoices == 2

Chars == {"a", "b"}

----------------------------------------------------------------------------
(* JavaScript values *)

Undef == [t |-> "undefined"]
Null == [t |-> "null"]
Str(s) == [t |-> "string", v |-> s]
Num(n) == [t |-> "number", v |-> n]
Bool(b) == [t |-> "boolean", v |-> b]
Obj(f) == [t |-> "object", v |-> f]
\* a request body of type string: its JSON tokens
Text(toks) == [t |-> "string", toks |-> toks]

\* ToBoolean, as applied by !x and x || y
Truthy(v) ==
    CASE v.t = "undefined" -> FALSE
      [] v.t = "null" -> FALSE
      [] v.t = "string" -> IF "v" \in DOMAIN v THEN Len(v.v) > 0 ELSE Len(v.toks) > 0
      [] v.t = "number" -> v.v # 0
      [] v.t = "boolean" -> v.v
      [] OTHER -> TRUE

\* x || y
Or(x, y) == IF Truthy(x) THEN x ELSE y

\* o.k for a value that is neither undefined nor null: a property that is not
\* there reads as undefined, and so does a property of a primitive
Get(o, k) ==
    IF o.t = "object" /\ k \in DOMAIN o.v THEN o.v[k] ELSE Undef

\* a value the engine cannot read properties of
Nullish(v) == v.t \in {"undefined", "null"}

Strings == UNION {[1..n -> Chars] : n \in 0..MaxStrLen}


----------------------------------------------------------------------------
(* JSON text and JSON.parse (index.js:93).  The texts that reach the handler *)
(* are flat documents: a scalar, or an object whose members are scalars.     *)

Punct(c) == [t |-> "punct", v |-> c]
Key(k) == [t |-> "key", k |-> k]
StrLit(s) == [t |-> "strlit", v |-> s]
NumLit(n) == [t |-> "numlit", v |-> n]
NullLit == [t |-> "nulllit"]

IsScalarTok(tok) == tok.t \in {"strlit", "numlit", "nulllit"}

ScalarValue(tok) ==
    CASE tok.t = "strlit" -> Str(tok.v)
      [] tok.t = "numlit" -> Num(tok.v)
      [] OTHER -> Null

SyntaxErrorMessage == <<"Unexpected token in JSON">>
TypeErrorMessage == <<"Cannot destructure property 'systemPrompt' of 'payload'">>

\* an Error object with the given message (a string value)
ErrorOf(msg) == Obj("message" :> msg)

Returned(v) == [ok |-> TRUE, value |-> v]
Threw(e) == [ok |-> FALSE, value |-> e]

RECURSIVE ParseMembers(_, _, _)
\* the members of an object from position i on; a repeated key keeps its last value
ParseMembers(toks, i, acc) ==
    IF i + 3 > Len(toks)
    THEN Threw(ErrorOf(Str(SyntaxErrorMessage)))
    ELSE IF toks[i].t # "key" \/ toks[i + 1] # Punct(":") \/ ~IsScalarTok(toks[i + 2])
    THEN Threw(ErrorOf(Str(SyntaxErrorMessage)))
    ELSE LET acc2 == (toks[i].k :> ScalarValue(toks[i + 2])) @@ acc
         IN  IF toks[i + 3] = Punct("}")
             THEN IF i + 3 = Len(toks)
                  THEN Returned(Obj(acc2))
                  ELSE Threw(ErrorOf(Str(SyntaxErrorMessage)))
             ELSE IF toks[i + 3] = Punct(",")
             THEN ParseMembers(toks, i + 4, acc2)
             ELSE Threw(ErrorOf(Str(SyntaxErrorMessage)))

\* JSON.parse(text): the value, or a SyntaxError
JSONparse(toks) ==
    IF Len(toks) = 0
    THEN Threw(ErrorOf(Str(SyntaxErrorMessage)))
    ELSE IF IsScalarTok(toks[1])
    THEN IF Len(toks) = 1
         THEN Returned(ScalarValue(toks[1]))
         ELSE Threw(ErrorOf(Str(SyntaxErrorMessage)))
    ELSE IF toks[1] # Punct("{")
    THEN Threw(ErrorOf(Str(SyntaxErrorMessage)))
    ELSE IF Len(toks) = 2 /\ toks[2] = Punct("}")
    THEN Returned(Obj(<<>>))
    ELSE ParseMembers(toks, 2, <<>>)

----------------------------------------------------------------------------
(* The requests a caller can send (the mock of part_000:4-11 generalised) *)

KeyOrder == <<"systemPrompt", "userMessage", "maxTokens">>

ScalarTok(v) ==
    CASE v.t = "string" -> StrLit(v.v)
      [] v.t = "number" -> NumLit(v.v)
      [] OTHER -> NullLit

RECURSIVE MemberToks(_, _)
\* the members of object o for the keys KeyOrder[i..], each preceded by a comma
MemberToks(o, i) ==
    IF i > Len(KeyOrder)
    THEN <<>>
    ELSE IF KeyOrder[i] \in DOMAIN o
    THEN <<Punct(","), Key(KeyOrder[i]), Punct(":"), ScalarTok(o[KeyOrder[i]])>>
         \o MemberToks(o, i + 1)
    ELSE MemberToks(o, i + 1)

\* the caller's JSON encoding of a flat object
Stringify(o) ==
    LET ms == MemberToks(o, 1)
    IN  <<Punct("{")>> \o (IF Len(ms) = 0 THEN <<>> ELSE Tail(ms)) \o <<Punct("}")>>

Absent == [t |-> "absent"]

PromptInputs == {Absent} \cup {Str(s) : s \in Strings}
\* maxTokens: left out, null, or a number (0 included)
MaxTokensInputs == {Absent, Null} \cup {Num(n) : n \in 0..MaxTokensInput}

\* the object with the fields that are not absent
MakeObject(sp, um, mt) ==
    LET all == [k \in {"systemPrompt", "userMessage", "maxTokens"} |->
                  IF k = "systemPrompt" THEN sp ELSE IF k = "userMessage" THEN um ELSE mt]
        present == {k \in DOMAIN all : all[k] # Absent}
    IN  [k \in present |-> all[k]]

PayloadObjects ==
    {MakeObject(sp, um, mt) : sp \in PromptInputs, um \in PromptInputs,
                              mt \in MaxTokensInputs}

\* texts that are not JSON: the empty text, and a document cut before its end
BrokenTexts ==
    {<<>>, <<Punct("{")>>,
     <<Punct("{"), Key("systemPrompt"), Punct(":"), StrLit(<<"a">>)>>}

NoDocument == [t |-> "nodocument"]
Garbage == [t |-> "garbage"]

SentDocuments == {NoDocument, Garbage} \cup {Obj(o) : o \in PayloadObjects}

\* req.body for what the caller sent: an object arrives parsed or as its JSON
\* text; no document arrives as undefined, null or the text null
Bodies(doc) ==
    CASE doc = NoDocument -> {Undef, Null, Text(<<NullLit>>)}
      [] doc = Garbage -> {Text(toks) : toks \in BrokenTexts}
      [] OTHER -> {doc, Text(Stringify(doc.v))}

Methods == {"POST", "GET"}

DemoKey == <<"d", "e", "m", "o", "-", "k", "e", "y">>

\* MISTRAL_API_KEY: not set, empty, the sentinel, and two real keys
EnvKeys == {Undef, Str(<<>>), Str(DemoKey), Str(<<"d", "e", "m", "o">>), Str(<<"s", "k">>)}

----------------------------------------------------------------------------
(* The external chat-completion operation (client.chat.complete) *)

Arr(s) == [t |-> "array", v |-> s]

ContentStrings == {<<>>, <<"a">>, <<"b">>}

\* message.content of a choice: missing, null, or text (the empty text included)
Contents == {Undef, Null} \cup {Str(s) : s \in ContentStrings}

Choice(c) == Obj("message" :> Obj("content" :> c))

ChoiceLists == UNION {[1..n -> {Choice(c) : c \in Contents}] : n \in 0..MaxChoices}

\* what the operation resolves with: no choices property, or a list of choices
Pending == [t |-> "pending"]

ChatResponses == {Obj(<<>>)} \cup {Obj("choices" :> Arr(cs)) : cs \in ChoiceLists}

\* what the operation rejects with
ClientErrors == {ErrorOf(Str(<<"fetch failed">>)), ErrorOf(Str(<<>>))}

----------------------------------------------------------------------------
(* class MistralService *)

NoService == [t |-> "none"]

\* faulty variant of IsDemoKey: the sentinel "demo-key" is not recognised
IsDemoKeyNoSentinel(apiKey) == ~Truthy(apiKey)

\* index.js:11
IsDemoKey(apiKey) == ~Truthy(apiKey) \/ apiKey = Str(DemoKey)

\* new Mistral({ apiKey }) when it returns
NewMistral(apiKey) == [t |-> "client", apiKey |-> apiKey]

ClientConstructionError == ErrorOf(Str(<<"Mistral client construction failed">>))

\* the instance the constructor leaves (index.js:8-21)
NewService(apiKey) ==
    [isDemo |-> IsDemoKey(apiKey),
     client |-> IF IsDemoKey(apiKey) THEN Null ELSE NewMistral(apiKey)]

ConstructorLog(apiKey) ==
    IF IsDemoKey(apiKey)
    THEN Str(<<"Mistral Service inizializzato in modalita DEMO (no API key)">>)
    ELSE Str(<<"Mistral Service inizializzato con API key">>)

DefaultMaxTokens == 1000

\* the default of the parameter maxTokens of sendMessage (index.js:30)
SendMaxTokens(mt) == IF mt = Undef THEN Num(DefaultMaxTokens) ELSE mt

\* faulty variant of Messages: the user entry comes first
MessagesUserFirst(systemPrompt, userMessage) ==
    <<[role |-> "user", content |-> userMessage],
      [role |-> "system", content |-> systemPrompt]>>

\* index.js:41-50
Messages(systemPrompt, userMessage) ==
    <<[role |-> "system", content |-> systemPrompt],
      [role |-> "user", content |-> userMessage]>>

\* the argument of client.chat.complete (index.js:54-58)
ChatRequest(systemPrompt, userMessage, maxTokens) ==
    [model |-> "mistral-large-latest",
     messages |-> Messages(systemPrompt, userMessage),
     maxTokens |-> SendMaxTokens(maxTokens)]

NoClientMessage == <<"Tentativo di inviare messaggio in modalita DEMO senza client attivo.">>
EmptyResponseMessage == <<"Risposta vuota ricevuta da Mistral AI">>

\* a[i] for an array (indices from 0): undefined past the end
Index(a, i) == IF i < Len(a.v) THEN a.v[i + 1] ELSE Undef

\* index.js:61
HasChoices(chatResponse) ==
    LET choices == Get(chatResponse, "choices")
    IN  Truthy(choices) /\ Len(choices.v) > 0

ReadOfUndefinedMessage == <<"Cannot read properties of undefined">>

\* index.js:62: choices[0].message.content
FirstContent(chatResponse) ==
    LET choice == Index(Get(chatResponse, "choices"), 0)
    IN  IF Nullish(choice) \/ Nullish(Get(choice, "message"))
        THEN Threw(ErrorOf(Str(ReadOfUndefinedMessage)))
        ELSE Returned(Get(Get(choice, "message"), "content"))

\* faulty variant of ExtractContent: choices?.[0]?.message?.content, no error when
\* there is no choice
ExtractContentLenient(chatResponse) ==
    IF HasChoices(chatResponse)
    THEN FirstContent(chatResponse)
    ELSE Returned(Undef)

\* index.js:61-65: the text of the first choice, or the empty-response error
ExtractContent(chatResponse) ==
    IF HasChoices(chatResponse)
    THEN FirstContent(chatResponse)
    ELSE Threw(ErrorOf(Str(EmptyResponseMessage)))

\* index.js:68
ServiceErrorLog(err) == Str(<<"Error in Mistral service: ">> \o Get(err, "message").v)

----------------------------------------------------------------------------
(* The handler: export default async ({ req, res, log, error }) *)

\* res.json(body, status)
Respond(body, status) == responses' = Append(responses, [status |-> status, body |-> body])

MethodNotAllowedBody == "error" :> Str(<<"Method not allowed">>)

MissingParametersBody ==
    ("success" :> Bool(FALSE))
    @@ ("error" :> Str(<<"Parametri mancanti: systemPrompt e userMessage sono obbligatori.">>))

DemoNotice ==
    Str(<<"Modalita DEMO: Il servizio e attivo. Nessuna chiamata API reale a Mistral.">>)

\* faulty variant of DemoData: the canned text without the user message
DemoDataWithoutMessage(userMessage) ==
    Str(<<"[DEMO OUTPUT] Ho ricevuto il tuo messaggio. ">>
        \o <<"Questa e una risposta simulata per testare il flusso.">>)

\* the template literal of index.js:109
DemoData(userMessage) ==
    Str(<<"[DEMO OUTPUT] Ho ricevuto il tuo messaggio: \"">>
        \o userMessage.v
        \o <<"\". Questa e una risposta simulata per testare il flusso.">>)

DemoBody(userMessage) ==
    ("success" :> Bool(TRUE)) @@ ("message" :> DemoNotice)
    @@ ("data" :> DemoData(userMessage))

SuccessBody(responseText) == ("success" :> Bool(TRUE)) @@ ("data" :> responseText)

FailureBody(err) == ("success" :> Bool(FALSE)) @@ ("error" :> Get(err, "message"))

\* index.js:127
FailureLog(err) == Str(<<"Function execution failed: ">> \o Get(err, "message").v)

\* index.js:80
ApiKey == Or(env, Str(<<>>))

\* faulty variant of HandlerMaxTokens: maxTokens ?? 1000
HandlerMaxTokensNullish(maxTokens) ==
    IF Nullish(maxTokens) THEN Num(DefaultMaxTokens) ELSE maxTokens

\* index.js:117
HandlerMaxTokens(maxTokens) == Or(maxTokens, Num(DefaultMaxTokens))

\* index.js:98
FieldsMissing(p) == ~Truthy(Get(p, "systemPrompt")) \/ ~Truthy(Get(p, "userMessage"))

Init ==
    /\ env \in EnvKeys
    /\ sent \in SentDocuments
    /\ req \in [method : Methods, body : Bodies(sent)]
    /\ pc = "start"
    /\ service = NoService
    /\ payload = Undef
    /\ parseCalls = 0
    /\ sendCalls = 0
    /\ extCalls = <<>>
    /\ chatOutcome = Pending
    /\ caught = Undef
    /\ thrown = Undef
    /\ responses = <<>>
    /\ logs = <<>>
    /\ errors = <<>>

\* index.js:80-83: the service is constructed before the method check and outside
\* the try block; new Mistral(...) returns the client or throws
Construct ==
    /\ pc = "start"
    /\ \E built \in BOOLEAN :
         IF IsDemoKey(ApiKey) \/ built
         THEN /\ service' = NewService(ApiKey)
              /\ logs' = Append(logs, ConstructorLog(ApiKey))
              /\ pc' = "method"
              /\ UNCHANGED thrown
         ELSE /\ thrown' = ClientConstructionError
              /\ pc' = "rejected"
              /\ UNCHANGED <<service, logs>>
    /\ UNCHANGED <<env, sent, req, payload, parseCalls, sendCalls, extCalls,
                   chatOutcome, caught, responses, errors>>

\* index.js:86-88
MethodCheck ==
    /\ pc = "method"
    /\ IF req.method # "POST"
       THEN /\ Respond(MethodNotAllowedBody, 405)
            /\ pc' = "done"
       ELSE /\ pc' = "parse"
            /\ UNCHANGED responses
    /\ UNCHANGED <<env, sent, req, service, payload, parseCalls, sendCalls, extCalls,
                   chatOutcome, caught, thrown, logs, errors>>

\* index.js:93
ParseBody ==
    /\ pc = "parse"
    /\ IF req.body.t = "string"
       THEN LET r == JSONparse(req.body.toks)
            IN  /\ parseCalls' = parseCalls + 1
                /\ IF r.ok
                   THEN /\ payload' = r.value
                        /\ pc' = "validate"
                        /\ UNCHANGED caught
                   ELSE /\ caught' = r.value
                        /\ pc' = "catch"
                        /\ UNCHANGED payload
       ELSE /\ payload' = req.body
            /\ pc' = "validate"
            /\ UNCHANGED <<parseCalls, caught>>
    /\ UNCHANGED <<env, sent, req, service, sendCalls, extCalls, chatOutcome, thrown,
                   responses, logs, errors>>

\* index.js:95-103: the destructuring, then the validation
Validate ==
    /\ pc = "validate"
    /\ IF Nullish(payload)
       THEN /\ caught' = ErrorOf(Str(TypeErrorMessage))
            /\ pc' = "catch"
            /\ UNCHANGED responses
       ELSE IF FieldsMissing(payload)
       THEN /\ Respond(MissingParametersBody, 400)
            /\ pc' = "done"
            /\ UNCHANGED caught
       ELSE /\ pc' = "dispatch"
            /\ UNCHANGED <<caught, responses>>
    /\ UNCHANGED <<env, sent, req, service, payload, parseCalls, sendCalls, extCalls,
                   chatOutcome, thrown, logs, errors>>

\* index.js:105-118 and sendMessage up to its await (index.js:30-58)
Dispatch ==
    /\ pc = "dispatch"
    /\ IF service.isDemo
       THEN /\ Respond(DemoBody(Get(payload, "userMessage")), 200)
            /\ pc' = "done"
            /\ UNCHANGED <<sendCalls, extCalls, caught, logs>>
       ELSE /\ sendCalls' = sendCalls + 1
            /\ IF ~Truthy(service.client)
               THEN /\ logs' = Append(logs, Str(NoClientMessage))
                    /\ caught' = ErrorOf(Str(NoClientMessage))
                    /\ pc' = "catch"
                    /\ UNCHANGED extCalls
               ELSE /\ extCalls' = Append(extCalls,
                                     ChatRequest(Get(payload, "systemPrompt"),
                                                 Get(payload, "userMessage"),
                                                 HandlerMaxTokens(Get(payload, "maxTokens"))))
                    /\ pc' = "await"
                    /\ UNCHANGED <<caught, logs>>
            /\ UNCHANGED responses
    /\ UNCHANGED <<env, sent, req, service, payload, parseCalls, chatOutcome, thrown,
                   errors>>

\* the call resolves: index.js:61-71, then index.js:121-124
ExternalResolves ==
    /\ pc = "await"
    /\ \E chatResponse \in ChatResponses :
         LET r == ExtractContent(chatResponse)
         IN  /\ chatOutcome' = Returned(chatResponse)
             /\ IF r.ok
                THEN /\ Respond(SuccessBody(r.value), 200)
                     /\ pc' = "done"
                     /\ UNCHANGED <<caught, logs>>
                ELSE /\ logs' = Append(logs, ServiceErrorLog(r.value))
                     /\ caught' = r.value
                     /\ pc' = "catch"
                     /\ UNCHANGED responses
    /\ UNCHANGED <<env, sent, req, service, payload, parseCalls, sendCalls, extCalls,
                   thrown, errors>>

\* faulty variant of ExternalRejects: the rejected request is issued again
ExternalRejectsRetry ==
    /\ pc = "await"
    /\ \E e \in ClientErrors :
         /\ chatOutcome' = Threw(e)
         /\ logs' = Append(logs, ServiceErrorLog(e))
    /\ extCalls' = Append(extCalls, extCalls[Len(extCalls)])
    /\ UNCHANGED <<env, sent, req, pc, service, payload, parseCalls, sendCalls,
                   caught, thrown, responses, errors>>

\* the call rejects: index.js:67-71
ExternalRejects ==
    /\ pc = "await"
    /\ \E e \in ClientErrors :
         /\ chatOutcome' = Threw(e)
         /\ logs' = Append(logs, ServiceErrorLog(e))
         /\ caught' = e
    /\ pc' = "catch"
    /\ UNCHANGED <<env, sent, req, service, payload, parseCalls, sendCalls, extCalls,
                   thrown, responses, errors>>

\* index.js:126-132
Catch ==
    /\ pc = "catch"
    /\ errors' = Append(errors, FailureLog(caught))
    /\ Respond(FailureBody(caught), 500)
    /\ pc' = "done"
    /\ UNCHANGED <<env, sent, req, service, payload, parseCalls, sendCalls, extCalls,
                   chatOutcome, caught, thrown, logs>>

Next ==
    \/ Construct
    \/ MethodCheck
    \/ ParseBody
    \/ Validate
    \/ Dispatch
    \/ ExternalResolves
    \/ ExternalRejects
    \/ Catch

Spec == Init /\ [][Next]_vars

----------------------------------------------------------------------------
(* Vocabulary of the properties, stated on the request as the caller sent it *)
(* and on the responses as the caller receives them                          *)

\* the document carries field k as a non-empty string
HasText(doc, k) ==
    /\ doc.t = "object"
    /\ k \in DOMAIN doc.v
    /\ doc.v[k].t = "string"
    /\ doc.v[k].v # <<>>

SentValid == HasText(sent, "systemPrompt") /\ HasText(sent, "userMessage")

\* an object without one of the fields (or with it empty), or no body at all
SentLacksFields == sent # Garbage /\ ~SentValid

DemoConfigured == env \in {Undef, Str(<<>>), Str(DemoKey)}

DemoMode == service # NoService /\ service.isDemo
LiveMode == service # NoService /\ ~service.isDemo

Contains(s, sub) ==
    \E i \in 0..(Len(s) - Len(sub)) : SubSeq(s, i + 1, i + Len(sub)) = sub

\* the envelope carries a value in field k
Populated(body, k) == k \in DOMAIN body /\ body[k].t \notin {"undefined", "null"}

Succeeds(body) == "success" \in DOMAIN body /\ body["success"] = Bool(TRUE)
Fails(body) == "success" \in DOMAIN body /\ body["success"] = Bool(FALSE)

Resolved == chatOutcome # Pending /\ chatOutcome.ok
Rejected == chatOutcome # Pending /\ ~chatOutcome.ok

\* the resolved response has no choices property, or an empty list
ZeroChoices ==
    \/ "choices" \notin DOMAIN chatOutcome.value.v
    \/ chatOutcome.value.v["choices"].v = <<>>

FirstChoiceContent ==
    chatOutcome.value.v["choices"].v[1].v["message"].v["content"]

Forwarded == extCalls[1].maxTokens

----------------------------------------------------------------------------
(* C1: every POST whose body lacks systemPrompt or userMessage (absent or  *)
(* empty; body a parsed object, a JSON text, or no body at all), in demo    *)
(* and in live mode, ends with status 400 and success=false, and the        *)
(* external operation is not called.                                        *)
C1_MissingFieldsGet400 ==
    (req.method = "POST" /\ SentLacksFields) =>
        /\ extCalls = <<>>
        /\ pc = "done" =>
             /\ Len(responses) = 1
             /\ responses[1].status = 400
             /\ Fails(responses[1].body)

(* C2: every failure raised during service construction, body parsing,     *)
(* field validation or dispatch is caught by the handler: no exception      *)
(* leaves the handler, the error callback gets the failure message and the  *)
(* response is status 500 with {success:false, error:<message>}.            *)
C2_FailuresCaught ==
    /\ thrown = Undef
    /\ pc # "rejected"
    /\ (pc = "done" /\ caught # Undef) =>
         /\ responses = <<[status |-> 500,
                           body |-> ("success" :> Bool(FALSE))
                                    @@ ("error" :> caught.v["message"])]>>
         /\ Len(errors) = 1
         /\ Contains(errors[1].v, caught.v["message"].v)

(* C3: every invocation whose method is not POST ends with status 405 and   *)
(* body {error: "Method not allowed"}, whatever the body and the mode; the  *)
(* body is never parsed and the external operation is not called.           *)
C3_NonPostGets405 ==
    req.method # "POST" =>
        /\ parseCalls = 0
        /\ extCalls = <<>>
        /\ pc \in {"done", "rejected"} =>
             responses = <<[status |-> 405,
                            body |-> "error" :> Str(<<"Method not allowed">>)]>>

(* C4: on every response exactly one of the envelope fields data and error  *)
(* is populated, and an envelope with success=true carries no error field,  *)
(* also for a live response whose first choice has empty or missing content.*)
C4_ExactlyOneOfDataError ==
    \A i \in DOMAIN responses :
        LET body == responses[i].body
        IN  /\ Populated(body, "data") # Populated(body, "error")
            /\ Succeeds(body) => "error" \notin DOMAIN body

(* C5: in demo mode (credential not set, empty or "demo-key") every POST    *)
(* with non-empty systemPrompt and userMessage ends with status 200,        *)
(* success=true, a message, and data that contains userMessage; neither     *)
(* sendMessage nor the external operation is called.                        *)
C5_DemoModeCannedResponse ==
    (DemoConfigured /\ req.method = "POST" /\ SentValid) =>
        /\ extCalls = <<>>
        /\ sendCalls = 0
        /\ pc \notin {"await", "catch", "rejected"}
        /\ pc = "done" =>
             /\ Len(responses) = 1
             /\ responses[1].status = 200
             /\ Succeeds(responses[1].body)
             /\ Populated(responses[1].body, "message")
             /\ Populated(responses[1].body, "data")
             /\ Contains(responses[1].body["data"].v, sent.v["userMessage"].v)

C5_Witness ==
    /\ DemoConfigured /\ req.method = "POST" /\ SentValid
    /\ req.body.t = "string"
    /\ Len(sent.v["userMessage"].v) >= 2
    /\ pc = "done"
    /\ responses[1].status = 200

(* C6 as stated: the forwarded token limit is 1000 when the request carries *)
(* no maxTokens, and equals the explicit maxTokens for every value a caller *)
(* may supply.                                                              *)
C6_ExplicitMaxTokensUnchanged ==
    extCalls # <<>> =>
        Forwarded = IF "maxTokens" \in DOMAIN sent.v
                    THEN sent.v["maxTokens"]
                    ELSE Num(1000)

(* C6 amended: the forwarded token limit is 1000 when the request carries   *)
(* no maxTokens or a falsy one (0, null), and equals the explicit maxTokens *)
(* for every truthy value.                                                  *)
C6_TruthyMaxTokensUnchanged ==
    extCalls # <<>> =>
        Forwarded = IF /\ "maxTokens" \in DOMAIN sent.v
                       /\ sent.v["maxTokens"] \notin {Num(0), Null}
                    THEN sent.v["maxTokens"]
                    ELSE Num(1000)

C6_Witness ==
    /\ extCalls # <<>>
    /\ "maxTokens" \in DOMAIN sent.v
    /\ sent.v["maxTokens"] = Num(MaxTokensInput)
    /\ Forwarded = Num(MaxTokensInput)

(* C7: in live mode, for a POST with non-empty systemPrompt and userMessage *)
(* the external operation is called with exactly two messages, role system  *)
(* with systemPrompt then role user with userMessage; when it returns at    *)
(* least one choice the response is status 200, success=true and data the   *)
(* content of the first choice.                                             *)
C7_LiveTwoMessagesFirstChoice ==
    (LiveMode /\ req.method = "POST" /\ SentValid) =>
        /\ pc \in {"await", "catch", "done"} =>
             /\ Len(extCalls) = 1
             /\ extCalls[1].messages =
                    <<[role |-> "system", content |-> sent.v["systemPrompt"]],
                      [role |-> "user", content |-> sent.v["userMessage"]]>>
        /\ (pc = "done" /\ Resolved /\ ~ZeroChoices) =>
             responses = <<[status |-> 200,
                            body |-> ("success" :> Bool(TRUE))
                                     @@ ("data" :> FirstChoiceContent)]>>

C7_Witness ==
    /\ LiveMode /\ req.method = "POST" /\ SentValid
    /\ pc = "done" /\ Resolved /\ ~ZeroChoices
    /\ Len(chatOutcome.value.v["choices"].v) = 2
    /\ FirstChoiceContent = Str(<<"a">>)
    /\ sent.v["systemPrompt"] # sent.v["userMessage"]
    /\ responses[1].body["data"] = Str(<<"a">>)

(* C8: in live mode, when the external operation returns zero choices (an   *)
(* empty or absent list) the response is status 500 with success=false and  *)
(* a non-empty error message, never a status 200 success envelope.          *)
C8_ZeroChoicesIs500 ==
    (Resolved /\ ZeroChoices) =>
        /\ pc \in {"catch", "done"}
        /\ pc = "catch" => responses = <<>>
        /\ pc = "done" =>
             /\ Len(responses) = 1
             /\ responses[1].status = 500
             /\ Fails(responses[1].body)
             /\ "data" \notin DOMAIN responses[1].body
             /\ responses[1].body["error"].t = "string"
             /\ Len(responses[1].body["error"].v) > 0

C8_Witness ==
    /\ LiveMode
    /\ Resolved
    /\ "choices" \in DOMAIN chatOutcome.value.v
    /\ chatOutcome.value.v["choices"].v = <<>>
    /\ pc = "done"
    /\ responses[1].status = 500

(* C9: within one invocation the external operation is called at most once, *)
(* and only in live mode after the method check and the field validation    *)
(* have passed; when that call fails or returns no choices it is not issued *)
(* again and the invocation ends with exactly one response.                 *)
C9_SingleExternalCall ==
    /\ Len(extCalls) <= 1
    /\ Len(responses) <= 1
    /\ extCalls # <<>> =>
         /\ req.method = "POST"
         /\ SentValid
         /\ LiveMode
         /\ pc \in {"await", "catch", "done"}
    /\ chatOutcome # Pending => Len(extCalls) = 1
    /\ (pc = "done" /\ (Rejected \/ (Resolved /\ ZeroChoices))) =>
         Len(responses) = 1

C9_Witness ==
    /\ Rejected
    /\ pc = "done"
    /\ Len(extCalls) = 1
    /\ Len(responses) = 1

(* C10: the mode of a service instance is decided at construction: isDemo   *)
(* is true exactly when the credential is not set, empty or "demo-key", the *)
(* client is null exactly when isDemo is true, and neither changes at any   *)
(* later step of the invocation.                                            *)
C10_ModeFixedAtConstruction ==
    /\ [](service # NoService =>
            /\ service.isDemo = DemoConfigured
            /\ (service.client = Null) = service.isDemo)
    /\ [][service # NoService => service' = service]_vars

C10_Witness ==
    /\ DemoMode
    /\ env = Str(DemoKey)
    /\ service.client = Null
    /\ pc = "done"

====
